---- MODULE Spec2Model ----
(***************************************************************************)
(* A model of raillabel.format.Frame (frame.py) and raillabel.format.Poly3d *)
(* (poly3d.py).                                                             *)
(*                                                                          *)
(* Python values are modelled as follows.                                   *)
(*   dict            a function; its keys are the DOMAIN.  Where the        *)
(*                   iteration order decides a result (Frame.objects, the   *)
(*                   `attributes` record) the dict is a sequence of         *)
(*                   [key, value] items in insertion order.                 *)
(*   None / a value  <<>> / <<v>>                                           *)
(*   an outcome      [raised, arg, val]: raised = "None" and val = <<v>>    *)
(*                   for a return, else the exception type and its argument *)
(***************************************************************************)
EXTENDS Integers, Sequences, FiniteSets, TLC

VARIABLES
    uid,                 \* Frame.uid
    timestamp,           \* Frame.timestamp
    streams,             \* Frame.streams
    data,                \* Frame.data
    objects,             \* Frame.objects, in insertion order
    ret,                 \* outcome of the last Frame operation
    data_dict,           \* Poly3d.fromdict: the input record
    coordinate_systems,  \* Poly3d.fromdict: the caller's mapping
    result,              \* Poly3d.fromdict: outcome of the call
    encoded              \* Poly3d.asdict of the decoded annotation

vars == <<uid, timestamp, streams, data, objects, ret,
          data_dict, coordinate_systems, result, encoded>>

frameVars == <<uid, timestamp, streams, data, objects, ret>>
polyVars == <<data_dict, coordinate_systems, result, encoded>>

-----------------------------------------------------------------------------
(* Bounds of the model *)

MaxObjects == 2
MaxAnnotations == 3
MaxTimestamp == 1
MaxVal == 6
MaxAttrs == 2

-----------------------------------------------------------------------------
(* Python basics *)

None == <<>>

Some(v) == <<v>>

EmptyDict == <<>>

Returned(v) == [raised |-> "None", arg |-> "", val |-> <<v>>]

Raised(type, a) == [raised |-> type, arg |-> a, val |-> <<>>]

Digit(n) == CASE n = 0 -> "0" [] n = 1 -> "1" [] n = 2 -> "2" [] n = 3 -> "3"
              [] n = 4 -> "4" [] n = 5 -> "5" [] n = 6 -> "6" [] n = 7 -> "7"
              [] n = 8 -> "8" [] n = 9 -> "9"

RECURSIVE IntToStr(_)
IntToStr(n) == IF n < 10 THEN Digit(n) ELSE IntToStr(n \div 10) \o Digit(n % 10)

\* Items of an ordered dict
Keys(items) == {items[i].key : i \in 1..Len(items)}

Item(k, v) == [key |-> k, value |-> v]

IndexOf(items, k) == CHOOSE i \in 1..Len(items) : items[i].key = k

Lookup(items, k) == items[IndexOf(items, k)].value

RECURSIVE RemoveKey(_, _)
RemoveKey(items, k) ==
    IF items = <<>> THEN <<>>
    ELSE IF Head(items).key = k THEN Tail(items)
    ELSE <<Head(items)>> \o RemoveKey(Tail(items), k)

\* d[k] = v on an ordered dict: a new key goes last, an old key keeps its place
SetKey(items, k, v) ==
    IF k \in Keys(items)
    THEN [items EXCEPT ![IndexOf(items, k)] = Item(k, v)]
    ELSE Append(items, Item(k, v))

\* dict.update(other) on a plain dict
Update(d, other) == other @@ d

-----------------------------------------------------------------------------
(* Frame: the values of its fields *)

STREAMS == {"rgb", "lidar"}

DATA == {"speed"}

UIDS == {"a", "b"}

OBJECT_KEYS == 1..MaxObjects

TIMESTAMPS == 0..MaxTimestamp

\* vars(object) of an ObjectData: its fields in declaration order
KINDS == <<"bboxs", "poly3ds">>

StreamReference(s) == [stream |-> s, uri |-> "file://" \o s]

Num(d) == [uid |-> d, name |-> d, val |-> 3]

Annotation(u, kind, o) == [uid |-> u, type |-> kind, object_data |-> o]

NewObjectData(o) ==
    <<Item("object", [isdict |-> FALSE, v |-> o])>>
    \o [i \in 1..Len(KINDS) |-> Item(KINDS[i], [isdict |-> TRUE, v |-> EmptyDict])]

Group(od, kind) == Lookup(od, kind).v

NumAnnotationsIn(od) ==
    LET RECURSIVE Sum(_)
        Sum(i) == IF i = 0 THEN 0
                  ELSE Cardinality(DOMAIN Group(od, KINDS[i])) + Sum(i - 1)
    IN Sum(Len(KINDS))

RECURSIVE NumAnnotations(_)
NumAnnotations(objs) ==
    IF objs = <<>> THEN 0
    ELSE NumAnnotationsIn(Head(objs).value) + NumAnnotations(Tail(objs))

-----------------------------------------------------------------------------
(* Frame.annotations *)

\* variant: an entry already merged is kept (setdefault instead of update)
RECURSIVE MergeObject_FirstWins(_, _)
MergeObject_FirstWins(annotations, fields) ==
    IF fields = <<>> THEN annotations
    ELSE MergeObject_FirstWins(
            IF Head(fields).value.isdict
            THEN Update(Head(fields).value.v, annotations)
            ELSE annotations,
            Tail(fields))

\* the inner loop: for annotation_type in vars(object).values()
RECURSIVE MergeObject(_, _)
MergeObject(annotations, fields) ==
    IF fields = <<>> THEN annotations
    ELSE MergeObject(
            IF Head(fields).value.isdict
            THEN Update(annotations, Head(fields).value.v)
            ELSE annotations,
            Tail(fields))

\* the outer loop: for object in self.objects.values()
RECURSIVE MergeObjects(_, _)
MergeObjects(annotations, objs) ==
    IF objs = <<>> THEN annotations
    ELSE MergeObjects(MergeObject(annotations, Head(objs).value), Tail(objs))

annotations(objs) == MergeObjects(EmptyDict, objs)

-----------------------------------------------------------------------------
(* Frame.asdict *)

\* StreamReference.asdict
StreamReference_asdict(v) == [uri |-> v.uri]

\* Num.asdict
Num_asdict(v) == [uid |-> v.uid, name |-> v.name, val |-> v.val]

\* ObjectData.asdict: only the kind-groups that are non-empty
ObjectData_asdict(od) ==
    LET kinds == {KINDS[i] : i \in 1..Len(KINDS)}
        filled == {k \in kinds : Group(od, k) # EmptyDict}
    IN [object_data |-> [k \in filled |-> DOMAIN Group(od, k)]]

\* dict_repr[key] = value
SetTop(st, key, value) ==
    IF st.raised # "None" THEN st
    ELSE Returned(Update(st.val[1], key :> value))

\* dict_repr[outer][key] = value: dict_repr[outer] is read first
SetNested(st, outer, key, value) ==
    IF st.raised # "None" THEN st
    ELSE IF outer \notin DOMAIN st.val[1] THEN Raised("KeyError", outer)
    ELSE Returned([st.val[1] EXCEPT ![outer] = Update(@, key :> value)])

\* [v.asdict() for v in self.data.values()]
NumList(items) == [i \in 1..Len(items) |-> Num_asdict(items[i].value)]

\* {str(k): v.asdict() for k, v in self.streams.items()}
StreamsDict(s) == [k \in DOMAIN s |-> StreamReference_asdict(s[k])]

\* {str(k): v.asdict() for k, v in self.objects.items()}
RECURSIVE ObjectsDict(_)
ObjectsDict(items) ==
    IF items = <<>> THEN EmptyDict
    ELSE Update(IntToStr(Head(items).key) :> ObjectData_asdict(Head(items).value),
                ObjectsDict(Tail(items)))

HasFrameProperties(f) == f.timestamp # None \/ f.streams # EmptyDict

asdict(f) ==
    LET s0 == Returned(EmptyDict)
        s1 == IF HasFrameProperties(f)
              THEN SetTop(s0, "frame_properties", EmptyDict) ELSE s0
        s2 == IF f.timestamp # None
              THEN SetNested(s1, "frame_properties", "timestamp", IntToStr(f.timestamp[1]))
              ELSE s1
        s3 == IF f.streams # EmptyDict
              THEN SetNested(s2, "frame_properties", "streams", StreamsDict(f.streams))
              ELSE s2
        s4 == IF f.data # <<>>
              THEN SetNested(s3, "frame_properties", "frame_data", [num |-> NumList(f.data)])
              ELSE s3
        s5 == IF f.objects # <<>>
              THEN SetTop(s4, "objects", ObjectsDict(f.objects))
              ELSE s4
    IN s5

-----------------------------------------------------------------------------
(* Frame.__eq__ *)

Typed(t, v) == [type |-> t, v |-> v]

\* self.__dict__, in field order
AttrsOf(f) ==
    << Item("uid", Typed("int", f.uid)),
       Item("timestamp", IF f.timestamp = None THEN Typed("NoneType", None)
                         ELSE Typed("Decimal", f.timestamp)),
       Item("streams", Typed("dict", f.streams)),
       Item("data", Typed("dict", f.data)),
       Item("objects", Typed("dict", f.objects)) >>

\* a != b on attribute values
PyNe(a, b) == ~(a.type = b.type /\ a.v = b.v)

HasUid(b) == b.type = "Frame"

RECURSIVE EqLoop(_, _, _)
EqLoop(attrs, other, i) ==
    IF i > Len(attrs) THEN Returned(TRUE)
    ELSE LET attr == attrs[i].key
             mine == attrs[i].value
         IN IF attr \notin DOMAIN other.dict THEN Raised("AttributeError", attr)
            ELSE IF mine.type = "Frame"
            THEN IF ~HasUid(other.dict[attr]) THEN Raised("AttributeError", "uid")
                 ELSE IF mine.v.uid # other.dict[attr].v.uid THEN Returned(FALSE)
                 ELSE EqLoop(attrs, other, i + 1)
            ELSE IF PyNe(mine, other.dict[attr]) THEN Returned(FALSE)
                 ELSE EqLoop(attrs, other, i + 1)

HasDictCheck(other) == ~other.has_dict

LenCheck(attrs, other) == Len(attrs) # Cardinality(DOMAIN other.dict)

eq(f, other) ==
    IF HasDictCheck(other) THEN Returned(FALSE)
    ELSE IF LenCheck(AttrsOf(f), other) THEN Returned(FALSE)
    ELSE EqLoop(AttrsOf(f), other, 1)

\* The values a Frame is compared with
AsObject(attrs) ==
    [has_dict |-> TRUE,
     dict |-> [k \in Keys(attrs) |-> Lookup(attrs, k)]]

Renamed(o, old, new) ==
    [has_dict |-> TRUE,
     dict |-> [k \in (DOMAIN o.dict \ {old}) \cup {new} |->
                  IF k = new THEN o.dict[old] ELSE o.dict[k]]]

Without(o, k) ==
    [has_dict |-> TRUE, dict |-> [x \in DOMAIN o.dict \ {k} |-> o.dict[x]]]

Others(f) ==
    LET same == AsObject(AttrsOf(f))
        otherUid == AsObject(AttrsOf([f EXCEPT !.uid = f.uid + 1]))
        otherTime == AsObject(AttrsOf([f EXCEPT !.timestamp =
                        IF f.timestamp = None THEN Some(0) ELSE None]))
    IN { [has_dict |-> FALSE, dict |-> EmptyDict],
         same, otherUid, otherTime,
         Renamed(same, "timestamp", "time"),
         Renamed(otherUid, "timestamp", "time"),
         Renamed(same, "uid", "id"),
         Renamed(same, "objects", "object"),
         Without(same, "objects") }

-----------------------------------------------------------------------------
(* The Frame as a state machine: its fields are assigned by the caller *)

Frame == [uid |-> uid, timestamp |-> timestamp, streams |-> streams,
          data |-> data, objects |-> objects]

Op(name, other, out) == [op |-> name, other |-> other, out |-> out]

NoOp == Op("none", <<>>, Returned(None))

SetTimestamp(t) ==
    /\ timestamp # t
    /\ timestamp' = t
    /\ ret' = NoOp
    /\ UNCHANGED <<uid, streams, data, objects, polyVars>>

SetStream(s) ==
    /\ s \notin DOMAIN streams
    /\ streams' = Update(streams, s :> StreamReference(s))
    /\ ret' = NoOp
    /\ UNCHANGED <<uid, timestamp, data, objects, polyVars>>

DelStream(s) ==
    /\ s \in DOMAIN streams
    /\ streams' = [k \in DOMAIN streams \ {s} |-> streams[k]]
    /\ ret' = NoOp
    /\ UNCHANGED <<uid, timestamp, data, objects, polyVars>>

SetData(d) ==
    /\ d \notin Keys(data)
    /\ data' = SetKey(data, d, Num(d))
    /\ ret' = NoOp
    /\ UNCHANGED <<uid, timestamp, streams, objects, polyVars>>

DelData(d) ==
    /\ d \in Keys(data)
    /\ data' = RemoveKey(data, d)
    /\ ret' = NoOp
    /\ UNCHANGED <<uid, timestamp, streams, objects, polyVars>>

AddObject(o) ==
    /\ o \notin Keys(objects)
    /\ objects' = SetKey(objects, o, NewObjectData(o))
    /\ ret' = NoOp
    /\ UNCHANGED <<uid, timestamp, streams, data, polyVars>>

RemoveObject(o) ==
    /\ o \in Keys(objects)
    /\ objects' = RemoveKey(objects, o)
    /\ ret' = NoOp
    /\ UNCHANGED <<uid, timestamp, streams, data, polyVars>>

AddAnnotation(o, kind, u) ==
    /\ o \in Keys(objects)
    /\ u \notin DOMAIN Group(Lookup(objects, o), kind)
    /\ NumAnnotations(objects) < MaxAnnotations
    /\ LET od == Lookup(objects, o)
           group == Update(Group(od, kind), u :> Annotation(u, kind, o))
       IN objects' = SetKey(objects, o, SetKey(od, kind, [isdict |-> TRUE, v |-> group]))
    /\ ret' = NoOp
    /\ UNCHANGED <<uid, timestamp, streams, data, polyVars>>

RemoveAnnotation(o, kind, u) ==
    /\ o \in Keys(objects)
    /\ u \in DOMAIN Group(Lookup(objects, o), kind)
    /\ LET od == Lookup(objects, o)
           old == Group(od, kind)
           group == [x \in DOMAIN old \ {u} |-> old[x]]
       IN objects' = SetKey(objects, o, SetKey(od, kind, [isdict |-> TRUE, v |-> group]))
    /\ ret' = NoOp
    /\ UNCHANGED <<uid, timestamp, streams, data, polyVars>>

ReadAnnotations ==
    /\ ret' = Op("annotations", <<>>, Returned(annotations(objects)))
    /\ UNCHANGED <<uid, timestamp, streams, data, objects, polyVars>>

Asdict ==
    /\ ret' = Op("asdict", <<>>, asdict(Frame))
    /\ UNCHANGED <<uid, timestamp, streams, data, objects, polyVars>>

Eq(other) ==
    /\ ret' = Op("eq", <<other>>, eq(Frame, other))
    /\ UNCHANGED <<uid, timestamp, streams, data, objects, polyVars>>

PolyIdle ==
    /\ data_dict = EmptyDict
    /\ coordinate_systems = EmptyDict
    /\ result = [raised |-> "NotCalled", arg |-> "", val |-> <<>>]
    /\ encoded = [raised |-> "NotCalled", arg |-> "", val |-> <<>>]

InitFrame ==
    /\ uid = 0
    /\ timestamp = None
    /\ streams = EmptyDict
    /\ data = <<>>
    /\ objects = <<>>
    /\ ret = NoOp
    /\ PolyIdle

ObjectStep ==
    \/ \E o \in OBJECT_KEYS : AddObject(o)
    \/ \E o \in OBJECT_KEYS : RemoveObject(o)

AnnotationStep ==
    \/ \E o \in OBJECT_KEYS, i \in 1..Len(KINDS), u \in UIDS : AddAnnotation(o, KINDS[i], u)
    \/ \E o \in OBJECT_KEYS, i \in 1..Len(KINDS), u \in UIDS : RemoveAnnotation(o, KINDS[i], u)

FieldStep ==
    \/ \E t \in {None} \cup {Some(x) : x \in TIMESTAMPS} : SetTimestamp(t)
    \/ \E s \in STREAMS : SetStream(s)
    \/ \E s \in STREAMS : DelStream(s)
    \/ \E d \in DATA : SetData(d)
    \/ \E d \in DATA : DelData(d)

\* The derived view over a changing set of objects and annotations
NextView == ObjectStep \/ AnnotationStep \/ ReadAnnotations

SpecView == InitFrame /\ [][NextView]_vars

\* Encoding and comparing a Frame whose fields change
NextEncode ==
    \/ FieldStep
    \/ ObjectStep
    \/ Asdict
    \/ \E other \in Others(Frame) : Eq(other)

SpecEncode == InitFrame /\ [][NextEncode]_vars

-----------------------------------------------------------------------------
(* Frame.asdict: claims *)

AsdictDone == ret.op = "asdict"

\* C1: Frame.asdict is total: for every combination of timestamp set/unset,
\* streams, data and objects empty/non-empty it returns a record and never
\* raises.
C1_AsdictTotal == AsdictDone => ret.out.raised = "None"

\* frame_data is emitted, as a key of the record or of its frame_properties
FrameDataEmitted(d) ==
    \/ "frame_data" \in DOMAIN d
    \/ "frame_properties" \in DOMAIN d /\ "frame_data" \in DOMAIN d["frame_properties"]

FrameDataOf(d) ==
    IF "frame_data" \in DOMAIN d THEN d["frame_data"] ELSE d["frame_properties"]["frame_data"]

\* C2: the record of Frame.asdict has frame_properties only if the timestamp
\* is set or streams is non-empty, has frame_data exactly if data is non-empty,
\* has objects only if objects is non-empty, and holds no empty placeholder.
C2_AsdictOptionality ==
    AsdictDone =>
        /\ data # <<>> => ret.out.raised = "None" /\ FrameDataEmitted(ret.out.val[1])
        /\ ret.out.raised = "None" =>
            LET d == ret.out.val[1] IN
            /\ "frame_properties" \in DOMAIN d =>
                  /\ timestamp # None \/ streams # EmptyDict
                  /\ d["frame_properties"] # EmptyDict
            /\ FrameDataEmitted(d) => data # <<>> /\ FrameDataOf(d).num # <<>>
            /\ "objects" \in DOMAIN d => objects # <<>> /\ d["objects"] # EmptyDict

-----------------------------------------------------------------------------
(* Frame.annotations: claims *)

\* the places (object index, field index) whose dict holds uid u
Places(u) ==
    {p \in (1..Len(objects)) \X (1..(Len(KINDS) + 1)) :
        /\ objects[p[1]].value[p[2]].value.isdict
        /\ u \in DOMAIN objects[p[1]].value[p[2]].value.v}

Later(p, q) == q[1] < p[1] \/ (q[1] = p[1] /\ q[2] <= p[2])

LastPlace(u) == CHOOSE p \in Places(u) : \A q \in Places(u) : Later(p, q)

At(p, u) == objects[p[1]].value[p[2]].value.v[u]

HeldUids == {u \in UIDS : Places(u) # {}}

UidsDistinct == \A u \in UIDS : Cardinality(Places(u)) <= 1

ViewRead == ret.op = "annotations"

\* C3: every read of frame.annotations is the merge of every kind-group of
\* every object now in frame.objects, in iteration order, a later entry
\* overwriting an earlier one on a uid collision; with pairwise distinct uids
\* it holds every annotation exactly once under its uid and nothing else.
C3_AnnotationsIsMergedView ==
    ViewRead =>
        /\ ret.out.raised = "None"
        /\ LET view == ret.out.val[1] IN
           /\ DOMAIN view = HeldUids
           /\ \A u \in HeldUids : view[u] = At(LastPlace(u), u)
           /\ UidsDistinct =>
                /\ Cardinality(DOMAIN view) = NumAnnotations(objects)
                /\ \A u \in HeldUids : \A p \in Places(u) : view[u] = At(p, u)

\* a read after removals and insertions, with a uid held by two objects
C3_Witness ==
    /\ ViewRead
    /\ Len(objects) = 2
    /\ \E u \in UIDS : \E p, q \in Places(u) : p[1] # q[1]
    /\ Cardinality(DOMAIN ret.out.val[1]) = 2

-----------------------------------------------------------------------------
(* Frame.__eq__: claims *)

EqDone == ret.op = "eq"

SameAttributeSet(other) ==
    other.has_dict /\ DOMAIN other.dict = Keys(AttrsOf(Frame))

AllAttributesEqual(other) ==
    \A i \in 1..Len(AttrsOf(Frame)) :
        LET mine == AttrsOf(Frame)[i].value
            theirs == other.dict[AttrsOf(Frame)[i].key]
        IN IF mine.type = "Frame"
           THEN HasUid(theirs) /\ mine.v.uid = theirs.v.uid
           ELSE mine.type = theirs.type /\ mine.v = theirs.v

\* C9: Frame.__eq__ returns True exactly when the other value has the same
\* attribute set and every attribute compares equal (a Frame attribute by its
\* uid), and returns False, never raising, for a value of another shape.
C9_EqStructural ==
    EqDone =>
        /\ ret.out.raised = "None"
        /\ ret.out.val[1] =
              (SameAttributeSet(ret.other[1]) /\ AllAttributesEqual(ret.other[1]))

-----------------------------------------------------------------------------
(* Poly3d: values *)

\* a scalar of a record: its Python type, and its value as a number or a string
PyInt(n) == [t |-> "int", n |-> n, s |-> ""]

PyStrVal(x) == [t |-> "str", n |-> 0, s |-> x]

PyBool(b) == [t |-> "bool", n |-> IF b THEN 1 ELSE 0, s |-> ""]

\* str(x)
str(x) ==
    IF x.t = "int" THEN IntToStr(x.n)
    ELSE IF x.t = "bool" THEN (IF x.n = 1 THEN "True" ELSE "False")
    ELSE x.s

\* bool(x)
bool(x) == IF x.t = "str" THEN x.s # "" ELSE x.n # 0

Point3d(x, y, z) == [x |-> x, y |-> y, z |-> z]

\* Point3d.asdict
Point3d_asdict(p) == <<p.x, p.y, p.z>>

CoordinateSystem(name) == [uid |-> name, type |-> "sensor"]

\* Poly3d(uid=, name=, closed=, points=, object_data=): the other fields default
Poly3d(u, n, c, pts, od) ==
    [uid |-> u, name |-> n, closed |-> c, points |-> pts, object_data |-> od,
     coordinate_system |-> None, attributes |-> EmptyDict, uri |-> None]

-----------------------------------------------------------------------------
(* Poly3d.fromdict, statement by statement.  The state of a call holds the  *)
(* two arguments as the call leaves them.                                   *)

Call(dd, cs) ==
    [raised |-> "None", arg |-> "", data_dict |-> dd, coordinate_systems |-> cs,
     points |-> <<>>, annotation |-> None, warnings |-> <<>>]

Fail(st, type, a) == [st EXCEPT !.raised = type, !.arg = a]

\* variant: the loop stops before a partial point (range(0, len(val) - 2, 3))
RECURSIVE ParseLoop_Truncating(_, _, _)
ParseLoop_Truncating(val, i, points) ==
    IF i + 2 >= Len(val) THEN Returned(points)
    ELSE ParseLoop_Truncating(val, i + 3,
            Append(points, Point3d(val[i + 1], val[i + 2], val[i + 3])))

\* variant: y and z are read from each other's place
RECURSIVE ParseLoop_Swapped(_, _, _)
ParseLoop_Swapped(val, i, points) ==
    IF i >= Len(val) THEN Returned(points)
    ELSE IF i + 1 >= Len(val) \/ i + 2 >= Len(val)
    THEN Raised("IndexError", "list index out of range")
    ELSE ParseLoop_Swapped(val, i + 3,
            Append(points, Point3d(val[i + 1], val[i + 3], val[i + 2])))

\* for i in range(0, len(val), 3): points.append(Point3d(val[i], val[i+1], val[i+2]))
RECURSIVE ParseLoop(_, _, _)
ParseLoop(val, i, points) ==
    IF i >= Len(val) THEN Returned(points)
    ELSE IF i + 1 >= Len(val) \/ i + 2 >= Len(val)
    THEN Raised("IndexError", "list index out of range")
    ELSE ParseLoop(val, i + 3, Append(points, Point3d(val[i + 1], val[i + 2], val[i + 3])))

ParsePoints(st) ==
    IF "val" \notin DOMAIN st.data_dict THEN Fail(st, "KeyError", "val")
    ELSE LET r == ParseLoop(st.data_dict["val"], 0, <<>>)
         IN IF r.raised # "None" THEN Fail(st, r.raised, r.arg)
            ELSE [st EXCEPT !.points = r.val[1]]

\* variant: closed is read with data_dict.get("closed", False)
Construct_ClosedDefaulted(st, object_data) ==
    IF st.raised # "None" THEN st
    ELSE IF "uid" \notin DOMAIN st.data_dict THEN Fail(st, "KeyError", "uid")
    ELSE IF "name" \notin DOMAIN st.data_dict THEN Fail(st, "KeyError", "name")
    ELSE [st EXCEPT !.annotation =
            Some(Poly3d(str(st.data_dict["uid"]), str(st.data_dict["name"]),
                        IF "closed" \in DOMAIN st.data_dict
                        THEN st.data_dict["closed"] ELSE PyBool(FALSE),
                        st.points, object_data))]

Construct(st, object_data) ==
    IF st.raised # "None" THEN st
    ELSE IF "uid" \notin DOMAIN st.data_dict THEN Fail(st, "KeyError", "uid")
    ELSE IF "name" \notin DOMAIN st.data_dict THEN Fail(st, "KeyError", "name")
    ELSE IF "closed" \notin DOMAIN st.data_dict THEN Fail(st, "KeyError", "closed")
    ELSE [st EXCEPT !.annotation =
            Some(Poly3d(str(st.data_dict["uid"]), str(st.data_dict["name"]),
                        st.data_dict["closed"], st.points, object_data))]

Warning(st) ==
    st.data_dict["coordinate_system"] \o " does not exist as a coordinate system, "
    \o "but is referenced for the annotation " \o str(st.data_dict["uid"]) \o "."

\* variant: the lookup is not guarded, a miss raises
ResolveCoordinateSystem_Unguarded(st) ==
    IF st.raised # "None" THEN st
    ELSE IF "coordinate_system" \in DOMAIN st.data_dict
            /\ st.data_dict["coordinate_system"] # ""
    THEN IF st.data_dict["coordinate_system"] \in DOMAIN st.coordinate_systems
         THEN [st EXCEPT !.annotation[1].coordinate_system =
                  Some(st.coordinate_systems[st.data_dict["coordinate_system"]])]
         ELSE Fail(st, "KeyError", st.data_dict["coordinate_system"])
    ELSE st

ResolveCoordinateSystem(st) ==
    IF st.raised # "None" THEN st
    ELSE IF "coordinate_system" \in DOMAIN st.data_dict
            /\ st.data_dict["coordinate_system"] # ""
    THEN IF st.data_dict["coordinate_system"] \in DOMAIN st.coordinate_systems
         THEN [st EXCEPT !.annotation[1].coordinate_system =
                  Some(st.coordinate_systems[st.data_dict["coordinate_system"]])]
         ELSE [st EXCEPT !.warnings = Append(@, Warning(st))]
    ELSE st

\* variant: a name already flattened keeps its value
RECURSIVE FlattenList_FirstWins(_, _)
FlattenList_FirstWins(attrs, l) ==
    IF l = <<>> THEN attrs
    ELSE FlattenList_FirstWins(Update(Head(l).name :> Head(l).val, attrs), Tail(l))

\* {a["name"]: a["val"] for l in data_dict["attributes"].values() for a in l}
RECURSIVE FlattenList(_, _)
FlattenList(attrs, l) ==
    IF l = <<>> THEN attrs
    ELSE FlattenList(Update(attrs, Head(l).name :> Head(l).val), Tail(l))

RECURSIVE Flatten(_, _)
Flatten(attrs, items) ==
    IF items = <<>> THEN attrs
    ELSE Flatten(FlattenList(attrs, Head(items).value), Tail(items))

NotUri(a) == a.name # "uri"

\* variant: uri is deleted from the input record's attributes as well
ExtractUri_Aliased(st) ==
    IF "uri" \in DOMAIN st.annotation[1].attributes
    THEN [st EXCEPT !.annotation[1].uri = Some(st.annotation[1].attributes["uri"]),
                    !.annotation[1].attributes =
                        [k \in DOMAIN st.annotation[1].attributes \ {"uri"} |->
                            st.annotation[1].attributes[k]],
                    !.data_dict["attributes"] =
                        [i \in 1..Len(@) |-> Item(@[i].key, SelectSeq(@[i].value, NotUri))]]
    ELSE st

\* annotation.uri = annotation.attributes["uri"]; del annotation.attributes["uri"]
ExtractUri(st) ==
    IF "uri" \in DOMAIN st.annotation[1].attributes
    THEN [st EXCEPT !.annotation[1].uri = Some(st.annotation[1].attributes["uri"]),
                    !.annotation[1].attributes =
                        [k \in DOMAIN st.annotation[1].attributes \ {"uri"} |->
                            st.annotation[1].attributes[k]]]
    ELSE st

AddAttributes(st) ==
    IF st.raised # "None" THEN st
    ELSE IF "attributes" \in DOMAIN st.data_dict
    THEN ExtractUri([st EXCEPT !.annotation[1].attributes =
                        Flatten(EmptyDict, st.data_dict["attributes"])])
    ELSE st

fromdict(dd, cs, object_data) ==
    AddAttributes(ResolveCoordinateSystem(Construct(ParsePoints(Call(dd, cs)), object_data)))

\* return annotation, warnings
Outcome(st) ==
    IF st.raised # "None" THEN Raised(st.raised, st.arg)
    ELSE Returned([annotation |-> st.annotation[1], warnings |-> st.warnings])

-----------------------------------------------------------------------------
(* Poly3d.asdict *)

\* _Annotation._annotation_required_fields_asdict
RequiredFields(a) == [uid |-> str(PyStrVal(a.uid)), name |-> str(PyStrVal(a.name))]

\* _Annotation._annotation_optional_fields_asdict: only the fields that are set
OptionalFields(a) ==
    LET withUri == IF a.uri = None THEN a.attributes
                   ELSE Update(a.attributes, "uri" :> a.uri[1])
        cs == IF a.coordinate_system = None THEN EmptyDict
              ELSE "coordinate_system" :> a.coordinate_system[1].uid
        attrs == IF withUri = EmptyDict THEN EmptyDict ELSE "attributes" :> withUri
    IN Update(cs, attrs)

\* for point in self.points: dict_repr["val"].extend(point.asdict())
RECURSIVE ExtendAll(_, _)
ExtendAll(val, points) ==
    IF points = <<>> THEN val
    ELSE ExtendAll(val \o Point3d_asdict(Head(points)), Tail(points))

Poly3d_asdict(a) ==
    LET d0 == RequiredFields(a)
        d1 == Update(d0, "closed" :> bool(a.closed))
        d2 == Update(d1, "val" :> ExtendAll(<<>>, a.points))
    IN Returned(Update(d2, OptionalFields(a)))

-----------------------------------------------------------------------------
(* Poly3d: the records decoded *)

UID_VALUES == {PyStrVal("u1"), PyInt(7)}

CLOSED_VALUES == {PyBool(TRUE), PyBool(FALSE), PyInt(0)}

CS_NAMES == {"csA", "csB"}

CS_REFS == {"", "csA", "csB"}

CATEGORIES == {"text", "vec"}

ATTRIBUTES == [name : {"uri", "length"}, val : {"file://x", "v1"}]

REQUIRED == {"uid", "name", "val", "closed"}

SeqsUpTo(S, n) == UNION {[1..k -> S] : k \in 0..n}

\* ordered dicts category -> list of attributes
AttributeRecords ==
    {<<>>}
    \cup {<<Item(c, l)>> : c \in CATEGORIES, l \in SeqsUpTo(ATTRIBUTES, MaxAttrs)}
    \cup UNION {{<<Item(c1, l1), Item(c2, l2)>> :
                    c2 \in CATEGORIES \ {c1},
                    l1 \in SeqsUpTo(ATTRIBUTES, MaxAttrs),
                    l2 \in SeqsUpTo(ATTRIBUTES, MaxAttrs)} : c1 \in CATEGORIES}

Restrict(d, keys) == [k \in DOMAIN d \cap keys |-> d[k]]

Record(u, val, closed) ==
    [uid |-> u, name |-> PyStrVal("track"), val |-> val, closed |-> closed]

CsMaps == {[n \in names |-> CoordinateSystem(n)] : names \in SUBSET CS_NAMES}

NotCalled == [raised |-> "NotCalled", arg |-> "", val |-> <<>>]

FrameIdle ==
    /\ uid = 0
    /\ timestamp = None
    /\ streams = EmptyDict
    /\ data = <<>>
    /\ objects = <<>>
    /\ ret = NoOp

\* geometry: every flat sequence, the closed flag present or not
InitGeometry ==
    /\ \E u \in UID_VALUES, val \in SeqsUpTo(0..1, MaxVal), c \in CLOSED_VALUES,
          keys \in {REQUIRED, REQUIRED \ {"closed"}} :
            data_dict = Restrict(Record(u, val, c), keys)
    /\ coordinate_systems = EmptyDict

\* references: any required field missing, resolved and dangling references
InitReference ==
    /\ \E u \in UID_VALUES, val \in {<<>>, <<0, 1, 0>>, <<1, 0>>},
          missing \in SUBSET REQUIRED, ref \in SUBSET CS_REFS :
            /\ Cardinality(ref) <= 1
            /\ data_dict = Update(Restrict(Record(u, val, PyBool(TRUE)), REQUIRED \ missing),
                                  [k \in {"coordinate_system" : r \in ref} |->
                                        CHOOSE r \in ref : TRUE])
    /\ coordinate_systems \in CsMaps

\* attributes, with and without a dangling reference
InitAttributes ==
    /\ \E attrs \in AttributeRecords, ref \in SUBSET {"csA"} :
            data_dict = Update(Update(Record(PyInt(7), <<0, 1, 0>>, PyBool(FALSE)),
                                      "attributes" :> attrs),
                               [k \in {"coordinate_system" : r \in ref} |-> "csA"])
    /\ coordinate_systems = EmptyDict

InitPoly ==
    /\ FrameIdle
    /\ InitGeometry \/ InitReference \/ InitAttributes
    /\ result = NotCalled
    /\ encoded = NotCalled

\* annotation, warnings = Poly3d.fromdict(data_dict, coordinate_systems)
Fromdict ==
    /\ result = NotCalled
    /\ LET st == fromdict(data_dict, coordinate_systems, None)
       IN /\ result' = Outcome(st)
          /\ data_dict' = st.data_dict
          /\ coordinate_systems' = st.coordinate_systems
    /\ UNCHANGED <<frameVars, encoded>>

\* annotation.asdict() of the decoded annotation
Encode ==
    /\ result.raised = "None"
    /\ encoded = NotCalled
    /\ encoded' = Poly3d_asdict(result.val[1].annotation)
    /\ UNCHANGED <<frameVars, data_dict, coordinate_systems, result>>

NextPoly == Fromdict \/ Encode

SpecPoly == InitPoly /\ [][NextPoly]_vars

-----------------------------------------------------------------------------
(* Poly3d.fromdict: claims *)

Called == result.raised # "NotCalled"

Decoded == result.raised = "None"

ValHasWholePoints == "val" \in DOMAIN data_dict /\ Len(data_dict["val"]) % 3 = 0

Referenced ==
    "coordinate_system" \in DOMAIN data_dict /\ data_dict["coordinate_system"] # ""

Dangling == Referenced /\ data_dict["coordinate_system"] \notin DOMAIN coordinate_systems

\* C4: on an otherwise valid record whose coordinate_system names no key of
\* coordinate_systems, fromdict returns the annotation with coordinate_system
\* unset and exactly one warning, naming the reference and the annotation's
\* uid; with the key absent, empty or resolved there is no warning, and a
\* resolved reference is the mapped entity.
C4_DanglingReferenceWarns ==
    (Called /\ REQUIRED \subseteq DOMAIN data_dict /\ ValHasWholePoints) =>
        /\ Decoded
        /\ LET a == result.val[1].annotation
               w == result.val[1].warnings
           IN IF Dangling
              THEN /\ a.coordinate_system = None
                   /\ Len(w) = 1
                   /\ w[1] = data_dict["coordinate_system"]
                             \o " does not exist as a coordinate system, but is referenced for the annotation "
                             \o a.uid \o "."
              ELSE /\ w = <<>>
                   /\ Referenced =>
                        a.coordinate_system =
                            Some(coordinate_systems[data_dict["coordinate_system"]])
                   /\ ~Referenced => a.coordinate_system = None

C4_Witness ==
    /\ Decoded
    /\ Dangling
    /\ coordinate_systems # EmptyDict
    /\ Len(result.val[1].warnings) = 1

MissesOnlyClosed ==
    /\ DOMAIN data_dict \cap REQUIRED = REQUIRED \ {"closed"}
    /\ ValHasWholePoints

\* C5, as stated: a record lacking only `closed` raises a SchemaError naming
\* closed.
C5_MissingClosedSchemaError ==
    (Called /\ MissesOnlyClosed) =>
        result.raised = "SchemaError" /\ result.arg = "closed" /\ result.val = <<>>

\* C5, amended: a record lacking only `closed` raises a KeyError naming
\* closed, and returns no annotation and no warnings.
C5_MissingClosedKeyError ==
    (Called /\ MissesOnlyClosed) =>
        result.raised = "KeyError" /\ result.arg = "closed" /\ result.val = <<>>

C5_Witness == Called /\ MissesOnlyClosed /\ Len(data_dict["val"]) = 3

ValHasPartialPoint == "val" \in DOMAIN data_dict /\ Len(data_dict["val"]) % 3 # 0

\* C6, as stated: a val whose length is no multiple of 3 fails the decode with
\* a SchemaError.
C6_PartialPointSchemaError ==
    (Called /\ ValHasPartialPoint) => result.raised = "SchemaError" /\ result.val = <<>>

\* C6, amended: a val whose length is no multiple of 3 always fails the decode
\* (no annotation with truncated or padded points is returned), and the
\* failure is an IndexError.
C6_PartialPointIndexError ==
    (Called /\ ValHasPartialPoint) => result.raised = "IndexError" /\ result.val = <<>>

C6_Witness == Called /\ ValHasPartialPoint /\ Len(data_dict["val"]) = 5

\* the entries (category index, list index) of the attributes record named n
Entries(n) ==
    LET items == data_dict["attributes"]
    IN {p \in (1..Len(items)) \X (1..MaxAttrs + 1) :
            /\ p[2] <= Len(items[p[1]].value)
            /\ items[p[1]].value[p[2]].name = n}

AttributeNames == {n \in {a.name : a \in ATTRIBUTES} : Entries(n) # {}}

LastEntry(n) == CHOOSE p \in Entries(n) : \A q \in Entries(n) : Later(p, q)

LastVal(n) == data_dict["attributes"][LastEntry(n)[1]].value[LastEntry(n)[2]].val

HasAttributes == "attributes" \in DOMAIN data_dict

\* C7: the attributes record is flattened into one name -> value mapping, the
\* category iterated later winning a name; a flattened `uri` becomes the
\* annotation's uri and is no key of its attributes, every other flattened
\* attribute is kept.
C7_AttributesFlattenedUriExtracted ==
    (Decoded /\ HasAttributes) =>
        LET a == result.val[1].annotation IN
        /\ DOMAIN a.attributes = AttributeNames \ {"uri"}
        /\ \A n \in DOMAIN a.attributes : a.attributes[n] = LastVal(n)
        /\ a.uri = IF "uri" \in AttributeNames THEN Some(LastVal("uri")) ELSE None

C7_Witness ==
    /\ Decoded
    /\ HasAttributes
    /\ Len(data_dict["attributes"]) = 2
    /\ \E p, q \in Entries("uri") :
            /\ p[1] # q[1]
            /\ data_dict["attributes"][p[1]].value[p[2]].val
                 # data_dict["attributes"][q[1]].value[q[2]].val
    /\ "length" \in DOMAIN result.val[1].annotation.attributes

Encoded == encoded.raised = "None"

\* C8: a val of length 3n decodes to exactly n points, the i-th being
\* (val[3i], val[3i+1], val[3i+2]), and encoding the decoded polyline gives a
\* val equal to the original flat sequence.
C8_GeometryRoundTrip ==
    /\ Decoded =>
        LET val == data_dict["val"]
            points == result.val[1].annotation.points
        IN /\ 3 * Len(points) = Len(val)
           /\ \A i \in 1..Len(points) :
                points[i] = Point3d(val[3 * i - 2], val[3 * i - 1], val[3 * i])
    /\ Encoded => encoded.val[1]["val"] = data_dict["val"]

C8_Witness ==
    /\ Encoded
    /\ data_dict["val"] = <<0, 0, 1, 1, 1, 0>>
    /\ Len(result.val[1].annotation.points) = 2

\* C10: fromdict leaves its inputs unchanged on every path: the
\* coordinate_systems mapping keeps its keys and values (a miss inserts
\* nothing) and the input record is not modified (removing uri from the
\* annotation's attributes does not remove it from the record's attributes).
C10_InputsUnchanged ==
    [][Fromdict => data_dict' = data_dict /\ coordinate_systems' = coordinate_systems]_vars

C10_Witness ==
    /\ Decoded
    /\ Dangling
    /\ result.val[1].annotation.uri # None
    /\ HasAttributes
    /\ Entries("uri") # {}

====
